---- MODULE Spec2Model ----
\* Image invocation nodes of invokeai/app/invocations/image.py.
\* One action per node type; an action is the construction of the node
\* (pydantic field validation) followed by its single invoke(context).
\* The state is the image store behind context.services.images and the
\* record of the last invocation (its fields, its create calls, its result).
EXTENDS Integers, Sequences, FiniteSets, TLC

\* ---------------------------------------------------------------- bounds

\* The engine invokes at most MaxInvocations nodes.
MaxInvocations == 1

\* ---------------------------------------------------------------- values

\* An optional value is a sequence: <<>> is None, <<v>> is the value v.
None == <<>>
Some(v) == <<v>>
IsNone(o) == o = <<>>
Get(o) == o[1]

\* The band names of a PIL mode (Image.getbands()).
Bands(mode) ==
    CASE mode = "L" -> <<"L">>
      [] mode = "RGB" -> <<"R", "G", "B">>
      [] mode = "RGBA" -> <<"R", "G", "B", "A">>

\* Pixel content is a term: the operation that computed it, a tag, its integer
\* arguments and the rasters it was computed from. Two rasters with the same
\* term are pixel-identical.
Px(op, tag, args, of) == [op |-> op, tag |-> tag, args |-> args, of |-> of]

Raster(w, h, mode, px) == [width |-> w, height |-> h, mode |-> mode, px |-> px]

\* Rasters ingested before any node runs (outside the nodes' code).
IngestedRaster(k, w, h, mode) == Raster(w, h, mode, Px("ingested", "", <<k>>, <<>>))

\* The stores the engine starts from: two ingested rasters each, covering the
\* three modes, equal and different sizes, and equal and different band counts.
InitStores ==
    { <<IngestedRaster(1, 2, 1, "RGBA"), IngestedRaster(2, 2, 1, "L")>>,
      <<IngestedRaster(3, 1, 2, "RGB"), IngestedRaster(4, 2, 3, "RGB")>>,
      <<IngestedRaster(1, 2, 1, "RGBA"), IngestedRaster(3, 1, 2, "RGB")>>,
      <<IngestedRaster(2, 2, 1, "L"), IngestedRaster(5, 1, 1, "RGBA")>> }

Ingested(r) ==
    [raster |-> r, origin |-> "EXTERNAL", category |-> "GENERAL", node_id |-> "",
     session_id |-> "", is_intermediate |-> FALSE, metadata |-> None]

\* What every invocation is given besides its own fields: the node's id and
\* is_intermediate flag (BaseInvocation) and the context's
\* graph_execution_state_id.
Envelopes ==
    { [id |-> "n1", is_intermediate |-> FALSE, session |-> "s1"],
      [id |-> "n2", is_intermediate |-> TRUE, session |-> "s2"] }

\* calc holds one pixel-level computation of a node: the function, its
\* arguments and its result.
VARIABLES store, invocations, last, calc

vars == <<store, invocations, last, calc>>

NoCalc == [fn |-> "none"]

\* ---------------------------------------------------------------- the image service

\* The image references a node can be given: no ImageField at all, the name of
\* a stored artifact, or a name that is not in the store.
Refs == {None} \cup {Some(n) : n \in 1..(Len(store) + 1)}

\* A node's computation ends in a raster to persist, in a pass-through output
\* or in an exception. fetched lists the rasters it got from the image service,
\* as they are when the computation ends.
Produced(r, fetched) ==
    [exc |-> "none", errfields |-> {}, raster |-> Some(r), fetched |-> fetched]

Raised(exc, errfields, fetched) ==
    [exc |-> exc, errfields |-> errfields, raster |-> None, fetched |-> fetched]

\* self.<field>.image_name on a field that is None raises AttributeError;
\* images.get_pil_image on an unknown name raises (NotFound).
FetchError(ref, field) ==
    IF IsNone(ref) THEN Raised("AttributeError", {field}, <<>>)
    ELSE Raised("NotFound", {field}, <<>>)

CanFetch(ref) == ~IsNone(ref) /\ Get(ref) \in DOMAIN store

\* images.get_pil_image(name)
get_pil_image(ref) == store[Get(ref)].raster

\* images.create(...): stores a new artifact under a fresh name and returns
\* its descriptor.
ImageDTO(st, r) == [image_name |-> Len(st) + 1, width |-> r.width, height |-> r.height]

create(st, call) ==
    Append(st, [raster |-> call.image, origin |-> call.image_origin,
                category |-> call.image_category, node_id |-> call.node_id,
                session_id |-> call.session_id,
                is_intermediate |-> call.is_intermediate,
                metadata |-> call.metadata])

\* The rasters a node fetched are the service's own objects: what the node did
\* to them in place is what the store holds afterwards.
RECURSIVE WriteBack(_, _)
WriteBack(st, fetched) ==
    IF fetched = <<>> THEN st
    ELSE WriteBack([st EXCEPT ![Head(fetched)[1]].raster = Head(fetched)[2]],
                   Tail(fetched))

Got(ref) == <<Get(ref), get_pil_image(ref)>>

\* ---------------------------------------------------------------- the record of an invocation

\* last records the invocation that just ended: the node and what it was given,
\* the store it started from, the rasters it fetched, its create calls with the
\* descriptors they returned, and its output or its exception.

NoInvocation ==
    [node |-> "none", id |-> "", is_intermediate |-> FALSE, session |-> "",
     fields |-> [image |-> None],
     status |-> "none", exc |-> "none", errfields |-> {}, fetched |-> <<>>,
     creates |-> <<>>, out |-> None, kind |-> "none", before |-> <<>>]

Invocation(node, env, fields, status, res, creates, out, kind) ==
    [node |-> node, id |-> env.id, is_intermediate |-> env.is_intermediate,
     session |-> env.session, fields |-> fields, status |-> status, exc |-> res.exc,
     errfields |-> res.errfields, fetched |-> res.fetched,
     creates |-> creates, out |-> out, kind |-> kind, before |-> store]

\* CreateCall with the node's id and the session's id exchanged.
CreateCallSwapped(env, r, category, metadata) ==
    [image |-> r, image_origin |-> "INTERNAL", image_category |-> category,
     node_id |-> env.session, session_id |-> env.id,
     is_intermediate |-> env.is_intermediate, metadata |-> metadata]

\* The create call every persisting node makes, and the output it returns
\* from the descriptor.
CreateCall(env, r, category, metadata) ==
    [image |-> r, image_origin |-> "INTERNAL", image_category |-> category,
     node_id |-> env.id, session_id |-> env.session,
     is_intermediate |-> env.is_intermediate, metadata |-> metadata]

OutputOf(dto) == [name |-> dto.image_name, width |-> dto.width, height |-> dto.height]

\* Persist for a node that has already stored the first raster it fetched
\* when its computation raises.
PersistBestEffort(node, env, fields, res, category, metadata, kind) ==
    LET st == WriteBack(store, res.fetched) IN
    IF res.exc # "none" /\ res.fetched = <<>>
    THEN /\ store' = st
         /\ last' = Invocation(node, env, fields, "failed", res, <<>>, None, kind)
    ELSE LET r == IF res.exc # "none" THEN res.fetched[1][2] ELSE Get(res.raster)
             call == CreateCall(env, r, category, metadata)
             dto == ImageDTO(st, call.image)
         IN /\ store' = create(st, call)
            /\ last' = Invocation(node, env, fields,
                                  IF res.exc # "none" THEN "failed" ELSE "ok", res,
                                  <<[call |-> call, dto |-> dto]>>,
                                  IF res.exc # "none" THEN None ELSE Some(OutputOf(dto)),
                                  kind)

\* A persisting node: an exception ends the invocation before create is
\* reached; otherwise create is called once and the output wraps its descriptor.
Persist(node, env, fields, res, category, metadata, kind) ==
    LET st == WriteBack(store, res.fetched) IN
    IF res.exc # "none"
    THEN /\ store' = st
         /\ last' = Invocation(node, env, fields, "failed", res, <<>>, None, kind)
    ELSE LET call == CreateCall(env, Get(res.raster), category, metadata)
             dto == ImageDTO(st, call.image)
         IN /\ store' = create(st, call)
            /\ last' = Invocation(node, env, fields, "ok", res,
                                  <<[call |-> call, dto |-> dto]>>,
                                  Some(OutputOf(dto)), kind)

\* PassThrough for a node that stores the fetched raster again and returns
\* the new artifact.
PassThroughPersists(node, env, fields, res) ==
    LET st == WriteBack(store, res.fetched) IN
    IF res.exc # "none"
    THEN /\ store' = st
         /\ last' = Invocation(node, env, fields, "failed", res, <<>>, None, "image")
    ELSE LET call == CreateCall(env, Get(res.raster), "GENERAL", None)
             dto == ImageDTO(st, call.image)
         IN /\ store' = create(st, call)
            /\ last' = Invocation(node, env, fields, "ok", res,
                                  <<[call |-> call, dto |-> dto]>>,
                                  Some(OutputOf(dto)), "image")

\* A pass-through node: no create; the output names the input reference and
\* carries the fetched raster's dimensions.
PassThrough(node, env, fields, res) ==
    /\ store' = WriteBack(store, res.fetched)
    /\ IF res.exc # "none"
       THEN last' = Invocation(node, env, fields, "failed", res, <<>>, None, "image")
       ELSE last' = Invocation(node, env, fields, "ok", res, <<>>,
                               Some([name |-> Get(fields.image),
                                     width |-> Get(res.raster).width,
                                     height |-> Get(res.raster).height]),
                               "image")

\* The engine invokes one more node.
Running ==
    /\ invocations < MaxInvocations
    /\ invocations' = invocations + 1
    /\ UNCHANGED calc

\* ---------------------------------------------------------------- Load, Show

LoadImage(ref) ==
    IF ~CanFetch(ref) THEN FetchError(ref, "image")
    ELSE LET image == get_pil_image(ref) IN Produced(image, <<Got(ref)>>)

LoadImageInvocation ==
    \E env \in Envelopes, ref \in Refs :
        /\ Running
        /\ PassThrough("load_image", env, [image |-> ref], LoadImage(ref))

\* What image.show() does in an invocation: a viewer displays the raster, or
\* none does; either way it returns.
DisplayOutcomes == {"shown", "not_shown"}

\* image.show() changes neither the raster nor the store.
ShowImage(ref, displayed) ==
    IF ~CanFetch(ref) THEN FetchError(ref, "image")
    ELSE LET image == get_pil_image(ref) IN Produced(image, <<Got(ref)>>)

ShowImageInvocation ==
    \E env \in Envelopes, ref \in Refs, displayed \in DisplayOutcomes :
        /\ Running
        /\ PassThrough("show_image", env, [image |-> ref, displayed |-> displayed],
                       ShowImage(ref, displayed))

\* ---------------------------------------------------------------- Crop

\* The crop rectangles tried: (x, y, width, height).
CropBoxes == { <<0, 0, 2, 1>>, <<-1, 1, 1, 3>>, <<0, 0, 0, 1>> }

ImageCrop(ref, x, y, width, height) ==
    LET bad == {f \in {"width", "height"} :
                    (f = "width" /\ ~(width > 0)) \/ (f = "height" /\ ~(height > 0))}
    IN
    IF bad # {} THEN Raised("ValidationError", bad, <<>>)
    ELSE IF ~CanFetch(ref) THEN FetchError(ref, "image")
    ELSE LET image == get_pil_image(ref)
             image_crop == Raster(width, height, "RGBA",
                                  Px("crop", "", <<-x, -y>>, <<image>>))
         IN Produced(image_crop, <<Got(ref)>>)

ImageCropInvocation ==
    \E env \in Envelopes, ref \in Refs, b \in CropBoxes :
        /\ Running
        /\ Persist("img_crop", env,
                   [image |-> ref, x |-> b[1], y |-> b[2], width |-> b[3], height |-> b[4]],
                   ImageCrop(ref, b[1], b[2], b[3], b[4]), "GENERAL", None, "image")

\* ---------------------------------------------------------------- Paste

\* ImageOps.invert(image): a lookup table applied to modes L and RGB; any other
\* mode raises OSError.
InvertSupported(mode) == mode \in {"L", "RGB"}

Invert(r) == Raster(r.width, r.height, r.mode, Px("invert", "", <<>>, <<r>>))

\* Image.paste(im, box, mask): the mask has the size of the pasted image and a
\* mode that carries transparency (1, L, LA, RGBA, RGBa), else ValueError.
PasteMaskOk(image, mask) ==
    /\ mask.width = image.width
    /\ mask.height = image.height
    /\ mask.mode \in {"1", "L", "LA", "RGBA", "RGBa"}

Min(a, b) == IF a < b THEN a ELSE b
Max(a, b) == IF a > b THEN a ELSE b
Abs(a) == IF a < 0 THEN -a ELSE a

\* The offsets tried: (x, y).
PasteOffsets == { <<0, 0>>, <<-1, 2>> }

\* The (base_image, image, mask, offset) inputs tried: every pair of
\* references without a mask at every offset, and every mask with the stored
\* rasters at one offset.
PasteInputs ==
    {<<b, i, None, o>> : b \in Refs, i \in Refs, o \in PasteOffsets}
    \cup {<<Some(b), Some(i), m, <<1, 0>>>> :
              b \in DOMAIN store, i \in DOMAIN store, m \in Refs \ {None}}

ImagePaste(base_ref, ref, mask_ref, x, y) ==
    IF ~CanFetch(base_ref) THEN FetchError(base_ref, "base_image")
    ELSE IF ~CanFetch(ref) THEN FetchError(ref, "image")
    ELSE IF ~IsNone(mask_ref) /\ ~CanFetch(mask_ref)
    THEN Raised("NotFound", {"mask"}, <<Got(base_ref), Got(ref)>>)
    ELSE IF ~IsNone(mask_ref) /\ ~InvertSupported(get_pil_image(mask_ref).mode)
    THEN Raised("OSError", {"mask"}, <<Got(base_ref), Got(ref), Got(mask_ref)>>)
    ELSE
    LET base_image == get_pil_image(base_ref)
        image == get_pil_image(ref)
        mask == IF IsNone(mask_ref) THEN None ELSE Some(Invert(get_pil_image(mask_ref)))
        fetched == IF IsNone(mask_ref) THEN <<Got(base_ref), Got(ref)>>
                   ELSE <<Got(base_ref), Got(ref), Got(mask_ref)>>
        min_x == Min(0, x)
        min_y == Min(0, y)
        max_x == Max(base_image.width, image.width + x)
        max_y == Max(base_image.height, image.height + y)
        new_image == Raster(max_x - min_x, max_y - min_y, "RGBA",
                            Px("paste", IF IsNone(mask) THEN "" ELSE "mask",
                               <<Abs(min_x), Abs(min_y), Max(0, x), Max(0, y)>>,
                               <<base_image, image>> \o mask))
    IN IF ~IsNone(mask) /\ ~PasteMaskOk(image, Get(mask))
       THEN Raised("ValueError", {"mask"}, fetched)
       ELSE Produced(new_image, fetched)

ImagePasteInvocation ==
    \E env \in Envelopes, i \in PasteInputs :
        /\ Running
        /\ Persist("img_paste", env,
                   [base_image |-> i[1], image |-> i[2], mask |-> i[3],
                    x |-> i[4][1], y |-> i[4][2]],
                   ImagePaste(i[1], i[2], i[3], i[4][1], i[4][2]),
                   "GENERAL", None, "image")

\* ---------------------------------------------------------------- MaskFromAlpha

\* image.split()[-1]: the last band of the image, whatever its mode.
LastBand(mode) == Bands(mode)[Len(Bands(mode))]

Band(r, band) == Raster(r.width, r.height, "L", Px("band", band, <<>>, <<r>>))

MaskFromAlpha(ref, invert) ==
    IF ~CanFetch(ref) THEN FetchError(ref, "image")
    ELSE LET image == get_pil_image(ref)
             image_mask == Band(image, LastBand(image.mode))
         IN Produced(IF invert THEN Invert(image_mask) ELSE image_mask, <<Got(ref)>>)

MaskFromAlphaInvocation ==
    \E env \in Envelopes, ref \in Refs, invert \in BOOLEAN :
        /\ Running
        /\ Persist("tomask", env, [image |-> ref, invert |-> invert],
                   MaskFromAlpha(ref, invert), "MASK", None, "mask")

\* ---------------------------------------------------------------- Multiply

\* ImageChops.multiply(image1, image2): operands with different band counts
\* raise ValueError; the result has the first operand's mode and, in each
\* dimension, the smaller of the two operands' sizes.
ImageMultiply(ref1, ref2) ==
    IF ~CanFetch(ref1) THEN FetchError(ref1, "image1")
    ELSE IF ~CanFetch(ref2) THEN FetchError(ref2, "image2")
    ELSE LET image1 == get_pil_image(ref1)
             image2 == get_pil_image(ref2)
             fetched == <<Got(ref1), Got(ref2)>>
             multiply_image ==
                 Raster(Min(image1.width, image2.width),
                        Min(image1.height, image2.height), image1.mode,
                        Px("multiply", "", <<>>, <<image1, image2>>))
         IN IF Len(Bands(image1.mode)) # Len(Bands(image2.mode))
            THEN Raised("ValueError", {"image1", "image2"}, fetched)
            ELSE Produced(multiply_image, fetched)

ImageMultiplyInvocation ==
    \E env \in Envelopes, ref1 \in Refs, ref2 \in Refs :
        /\ Running
        /\ Persist("img_mul", env, [image1 |-> ref1, image2 |-> ref2],
                   ImageMultiply(ref1, ref2), "GENERAL", None, "image")

\* ---------------------------------------------------------------- ChannelExtract, Convert

IMAGE_CHANNELS == {"A", "R", "G", "B"}

\* The channel names tried.
ChannelInputs == {"A", "R", "L"}

InBands(band, mode) == \E i \in DOMAIN Bands(mode) : Bands(mode)[i] = band

ImageChannel(ref, channel) ==
    IF channel \notin IMAGE_CHANNELS THEN Raised("ValidationError", {"channel"}, <<>>)
    ELSE IF ~CanFetch(ref) THEN FetchError(ref, "image")
    ELSE LET image == get_pil_image(ref) IN
         IF ~InBands(channel, image.mode)
         THEN Raised("ValueError", {"channel"}, <<Got(ref)>>)
         ELSE Produced(Band(image, channel), <<Got(ref)>>)

\* ImageChannelInvocation persisting the extracted band as a mask.
ImageChannelInvocationAsMask ==
    \E env \in Envelopes, ref \in Refs, channel \in ChannelInputs :
        /\ Running
        /\ Persist("img_chan", env, [image |-> ref, channel |-> channel],
                   ImageChannel(ref, channel), "MASK", None, "mask")

ImageChannelInvocation ==
    \E env \in Envelopes, ref \in Refs, channel \in ChannelInputs :
        /\ Running
        /\ Persist("img_chan", env, [image |-> ref, channel |-> channel],
                   ImageChannel(ref, channel), "GENERAL", None, "image")

IMAGE_MODES == {"L", "RGB", "RGBA", "CMYK", "YCbCr", "LAB", "HSV", "I", "F"}

\* The target modes tried: modes the model stores, and one outside IMAGE_MODES.
ModeInputs == {"L", "RGBA", "P"}

ImageConvert(ref, mode) ==
    IF mode \notin IMAGE_MODES THEN Raised("ValidationError", {"mode"}, <<>>)
    ELSE IF ~CanFetch(ref) THEN FetchError(ref, "image")
    ELSE LET image == get_pil_image(ref)
             converted_image ==
                 IF mode = image.mode THEN image
                 ELSE Raster(image.width, image.height, mode,
                             Px("convert", mode, <<>>, <<image>>))
         IN Produced(converted_image, <<Got(ref)>>)

ImageConvertInvocation ==
    \E env \in Envelopes, ref \in Refs, mode \in ModeInputs :
        /\ Running
        /\ Persist("img_conv", env, [image |-> ref, mode |-> mode],
                   ImageConvert(ref, mode), "GENERAL", None, "image")

\* ---------------------------------------------------------------- Blur

\* The (radius, blur_type) pairs tried.
BlurInputs == { <<8, "gaussian">>, <<0, "box">>, <<-1, "gaussian">>, <<8, "median">> }

ImageBlur(ref, radius, blur_type) ==
    LET bad == {f \in {"radius", "blur_type"} :
                    \/ (f = "radius" /\ ~(radius >= 0))
                    \/ (f = "blur_type" /\ blur_type \notin {"gaussian", "box"})}
    IN
    IF bad # {} THEN Raised("ValidationError", bad, <<>>)
    ELSE IF ~CanFetch(ref) THEN FetchError(ref, "image")
    ELSE LET image == get_pil_image(ref)
             blur == IF blur_type = "gaussian" THEN "GaussianBlur" ELSE "BoxBlur"
             blur_image == Raster(image.width, image.height, image.mode,
                                  Px("filter", blur, <<radius>>, <<image>>))
         IN Produced(blur_image, <<Got(ref)>>)

ImageBlurInvocation ==
    \E env \in Envelopes, ref \in Refs, b \in BlurInputs :
        /\ Running
        /\ Persist("img_blur", env, [image |-> ref, radius |-> b[1], blur_type |-> b[2]],
                   ImageBlur(ref, b[1], b[2]), "GENERAL", None, "image")

\* ---------------------------------------------------------------- Resize, Scale

PIL_RESAMPLING_MODES == {"nearest", "box", "bilinear", "hamming", "bicubic", "lanczos"}

\* Field(ge=64, multiple_of=8) on a Union[int, None]: None passes, an integer
\* is checked.
ResizeMin == 64
ResizeMultiple == 8

\* ResizeFieldOk without multiple_of.
ResizeFieldOkNoMultiple(v) == IsNone(v) \/ Get(v) >= ResizeMin

ResizeFieldOk(v) == IsNone(v) \/ (Get(v) >= ResizeMin /\ Get(v) % ResizeMultiple = 0)

\* Image.resize(size, resample): a size that is not a pair of integers raises
\* TypeError, a size below 1 in either dimension raises ValueError, the
\* image's own size gives a copy.
\* ResizeRejects for a resize that accepts any size.
ResizeRejectsNothing(width, height) == FALSE

ResizeRejects(width, height) == width < 1 \/ height < 1

Resize(image, width, height, resample) ==
    IF width = image.width /\ height = image.height THEN image
    ELSE Raster(width, height, image.mode, Px("resize", resample, <<>>, <<image>>))

\* The (width, height) pairs tried with the default kernel.
ResizeSizes ==
    { <<Some(64), Some(72)>>, <<Some(72), Some(60)>>, <<Some(68), Some(64)>>,
      <<Some(0), Some(64)>>, <<None, Some(64)>>, <<Some(64), None>>, <<None, None>> }

\* The (width, height, resample_mode) triples tried: every kernel with one
\* valid size, every size with the default kernel, and an unknown kernel.
ResizeInputs ==
    {<<Some(64), Some(72), k>> : k \in PIL_RESAMPLING_MODES}
    \cup {<<sz[1], sz[2], "bicubic">> : sz \in ResizeSizes}
    \cup {<<Some(64), Some(64), "cubic">>, <<None, Some(64), "cubic">>}

ImageResize(ref, width, height, resample_mode) ==
    LET bad == {f \in {"width", "height", "resample_mode"} :
                    \/ (f = "width" /\ ~ResizeFieldOk(width))
                    \/ (f = "height" /\ ~ResizeFieldOk(height))
                    \/ (f = "resample_mode" /\ resample_mode \notin PIL_RESAMPLING_MODES)}
    IN
    IF bad # {} THEN Raised("ValidationError", bad, <<>>)
    ELSE IF ~CanFetch(ref) THEN FetchError(ref, "image")
    ELSE LET image == get_pil_image(ref) IN
         IF IsNone(width) \/ IsNone(height)
         THEN Raised("TypeError",
                     {f \in {"width", "height"} :
                          (f = "width" /\ IsNone(width)) \/ (f = "height" /\ IsNone(height))},
                     <<Got(ref)>>)
         ELSE IF ResizeRejects(Get(width), Get(height))
         THEN Raised("ValueError", {"width", "height"}, <<Got(ref)>>)
         ELSE Produced(Resize(image, Get(width), Get(height), resample_mode), <<Got(ref)>>)

ImageResizeInvocation ==
    \E env \in Envelopes, ref \in Refs, i \in ResizeInputs :
        /\ Running
        /\ Persist("img_resize", env,
                   [image |-> ref, width |-> i[1], height |-> i[2], resample_mode |-> i[3]],
                   ImageResize(ref, i[1], i[2], i[3]), "GENERAL", None, "image")

\* A scale factor is a positive rational <<numerator, denominator>>;
\* int(size * factor) truncates the product.
ScaledSize(size, f) == (size * f[1]) \div f[2]

\* The scale factors tried: 2.0 (the default), 1.0, 1.5, 0.5, 0.0 and None.
ScaleFactors ==
    { Some(<<2, 1>>), Some(<<1, 1>>), Some(<<3, 2>>), Some(<<1, 2>>), Some(<<0, 1>>), None }

ScaleInputs ==
    {<<f, "bicubic">> : f \in ScaleFactors}
    \cup { <<Some(<<2, 1>>), "nearest">>, <<Some(<<2, 1>>), "cubic">> }

ImageScale(ref, scale_factor, resample_mode) ==
    LET bad == {f \in {"scale_factor", "resample_mode"} :
                    \/ (f = "scale_factor" /\ ~IsNone(scale_factor)
                            /\ ~(Get(scale_factor)[1] > 0))
                    \/ (f = "resample_mode" /\ resample_mode \notin PIL_RESAMPLING_MODES)}
    IN
    IF bad # {} THEN Raised("ValidationError", bad, <<>>)
    ELSE IF ~CanFetch(ref) THEN FetchError(ref, "image")
    ELSE IF IsNone(scale_factor) THEN Raised("TypeError", {"scale_factor"}, <<Got(ref)>>)
    ELSE LET image == get_pil_image(ref)
             width == ScaledSize(image.width, Get(scale_factor))
             height == ScaledSize(image.height, Get(scale_factor))
         IN IF ResizeRejects(width, height)
            THEN Raised("ValueError", {"scale_factor"}, <<Got(ref)>>)
            ELSE Produced(Resize(image, width, height, resample_mode), <<Got(ref)>>)

ImageScaleInvocation ==
    \E env \in Envelopes, ref \in Refs, i \in ScaleInputs :
        /\ Running
        /\ Persist("img_scale", env,
                   [image |-> ref, scale_factor |-> i[1], resample_mode |-> i[2]],
                   ImageScale(ref, i[1], i[2]), "GENERAL", None, "image")

\* ---------------------------------------------------------------- Lerp, InverseLerp

ByteMax == 255

ByteFieldOk(v) == v >= 0 /\ v <= ByteMax

BadMinMax(min, max) ==
    {f \in {"min", "max"} :
         (f = "min" /\ ~ByteFieldOk(min)) \/ (f = "max" /\ ~ByteFieldOk(max))}

\* Image.fromarray(numpy.uint8(arr)): the mode follows the number of bands.
ModeOfBands(n) == CASE n = 1 -> "L" [] n = 3 -> "RGB" [] n = 4 -> "RGBA"

\* The (min, max) pairs tried.
LerpInputs == { <<0, 255>>, <<10, 200>>, <<200, 10>>, <<-1, 255>>, <<0, 256>> }

ImageLerp(ref, min, max) ==
    IF BadMinMax(min, max) # {} THEN Raised("ValidationError", BadMinMax(min, max), <<>>)
    ELSE IF ~CanFetch(ref) THEN FetchError(ref, "image")
    ELSE LET image == get_pil_image(ref)
             lerp_image == Raster(image.width, image.height,
                                  ModeOfBands(Len(Bands(image.mode))),
                                  Px("lerp", "", <<min, max>>, <<image>>))
         IN Produced(lerp_image, <<Got(ref)>>)

ImageLerpInvocation ==
    \E env \in Envelopes, ref \in Refs, i \in LerpInputs :
        /\ Running
        /\ Persist("img_lerp", env, [image |-> ref, min |-> i[1], max |-> i[2]],
                   ImageLerp(ref, i[1], i[2]), "GENERAL", None, "image")

\* The (min, max) pairs tried.
InverseLerpInputs == { <<0, 255>>, <<200, 10>>, <<7, 7>>, <<0, 0>>, <<255, 255>>, <<0, 300>> }

\* numpy.uint8 of a NaN is not defined; these are the bytes it is taken to give.
NaNBytes == {0, 255}

\* With max = min the divisor is float(0) = 0.0: numpy divides without raising,
\* a channel above min gives inf (clamped to 1), any other gives 0/0 = NaN,
\* which numpy.minimum keeps and numpy.uint8 casts to some byte.
ImageInverseLerp(ref, min, max, nan) ==
    IF BadMinMax(min, max) # {} THEN Raised("ValidationError", BadMinMax(min, max), <<>>)
    ELSE IF ~CanFetch(ref) THEN FetchError(ref, "image")
    ELSE LET image == get_pil_image(ref)
             px == IF max = min
                   THEN Px("ilerp", "nonfinite", <<min, max, nan>>, <<image>>)
                   ELSE Px("ilerp", "", <<min, max>>, <<image>>)
             ilerp_image == Raster(image.width, image.height,
                                   ModeOfBands(Len(Bands(image.mode))), px)
         IN Produced(ilerp_image, <<Got(ref)>>)

ImageInverseLerpInvocation ==
    \E env \in Envelopes, ref \in Refs, i \in InverseLerpInputs :
      \E nan \in IF i[1] = i[2] THEN NaNBytes ELSE {0} :
        /\ Running
        /\ Persist("img_ilerp", env, [image |-> ref, min |-> i[1], max |-> i[2]],
                   ImageInverseLerp(ref, i[1], i[2], nan), "GENERAL", None, "image")

\* ---------------------------------------------------------------- NSFWBlur, Watermark

\* What SafetyChecker.has_nsfw_concept does in an invocation: it answers
\* False or True, or it raises.
ClassifierAnswers == {"clean", "flagged", "error"}

\* What InvisibleWatermark.add_watermark does: it returns the marked image, or
\* it raises.
EmbedderAnswers == {"ok", "error"}

\* The metadata a node can be given: none, or a CoreMetadata record.
MetadataInputs == {None, Some("core_metadata")}

NSFWBlurRadius == 32

\* ImageNSFWBlur pasting the caution image onto the fetched image itself.
ImageNSFWBlurInPlace(ref, answer) ==
    IF ~CanFetch(ref) THEN FetchError(ref, "image")
    ELSE IF answer = "error" THEN Raised("CapabilityFailure", {"image"}, <<Got(ref)>>)
    ELSE LET image == get_pil_image(ref)
             pasted == Raster(image.width, image.height, image.mode,
                              Px("paste", "caution", <<0, 0>>, <<image>>))
         IN IF answer = "flagged"
            THEN Produced(pasted, <<<<Get(ref), pasted>>>>)
            ELSE Produced(image, <<Got(ref)>>)

\* ImageNSFWBlur persisting the fetched image whatever the classifier answers.
ImageNSFWBlurKeepsInput(ref, answer) ==
    IF ~CanFetch(ref) THEN FetchError(ref, "image")
    ELSE IF answer = "error" THEN Raised("CapabilityFailure", {"image"}, <<Got(ref)>>)
    ELSE Produced(get_pil_image(ref), <<Got(ref)>>)

ImageNSFWBlur(ref, answer) ==
    IF ~CanFetch(ref) THEN FetchError(ref, "image")
    ELSE IF answer = "error" THEN Raised("CapabilityFailure", {"image"}, <<Got(ref)>>)
    ELSE LET image == get_pil_image(ref)
             blurry_image == Raster(image.width, image.height, image.mode,
                                    Px("filter", "GaussianBlur", <<NSFWBlurRadius>>, <<image>>))
             pasted == Raster(image.width, image.height, image.mode,
                              Px("paste", "caution", <<0, 0>>, <<blurry_image>>))
         IN Produced(IF answer = "flagged" THEN pasted ELSE image, <<Got(ref)>>)

ImageNSFWBlurInvocation ==
    \E env \in Envelopes, ref \in Refs, answer \in ClassifierAnswers,
       metadata \in MetadataInputs :
        /\ Running
        /\ Persist("img_nsfw", env,
                   [image |-> ref, metadata |-> metadata, answer |-> answer],
                   ImageNSFWBlur(ref, answer), "GENERAL", metadata, "image")

ImageWatermark(ref, text, answer) ==
    IF ~CanFetch(ref) THEN FetchError(ref, "image")
    ELSE IF answer = "error" THEN Raised("CapabilityFailure", {"image"}, <<Got(ref)>>)
    ELSE LET image == get_pil_image(ref)
             new_image == Raster(image.width, image.height, image.mode,
                                 Px("watermark", text, <<>>, <<image>>))
         IN Produced(new_image, <<Got(ref)>>)

ImageWatermarkInvocation ==
    \E env \in Envelopes, ref \in Refs, answer \in EmbedderAnswers,
       metadata \in MetadataInputs :
        /\ Running
        /\ Persist("img_watermark", env,
                   [image |-> ref, text |-> "InvokeAI", metadata |-> metadata,
                    answer |-> answer],
                   ImageWatermark(ref, "InvokeAI", answer), "GENERAL", metadata, "image")

\* ---------------------------------------------------------------- specification

Init ==
    /\ \E st \in InitStores : store = <<Ingested(st[1]), Ingested(st[2])>>
    /\ invocations = 0
    /\ last = NoInvocation
    /\ calc = NoCalc

Next ==
    \/ LoadImageInvocation
    \/ ShowImageInvocation
    \/ ImageCropInvocation
    \/ ImagePasteInvocation
    \/ MaskFromAlphaInvocation
    \/ ImageMultiplyInvocation
    \/ ImageChannelInvocation
    \/ ImageConvertInvocation
    \/ ImageBlurInvocation
    \/ ImageResizeInvocation
    \/ ImageScaleInvocation
    \/ ImageLerpInvocation
    \/ ImageInverseLerpInvocation
    \/ ImageNSFWBlurInvocation
    \/ ImageWatermarkInvocation

Spec == Init /\ [][Next]_vars

\* ---------------------------------------------------------------- pixels

\* The pixel-level computations of the nodes are checked on small images: an
\* image is its size, its mode and its pixels, a pixel a tuple of band values.
\* Rows and columns count from 0.
MaxSide == 2

Coords(w, h) == (0..(w - 1)) \X (0..(h - 1))

PixelImage(w, h, mode, at) == [width |-> w, height |-> h, mode |-> mode, at |-> at]

\* Image.new(mode, size, color)
NewImage(w, h, mode, color) == PixelImage(w, h, mode, [c \in Coords(w, h) |-> color])

Transparent == <<0, 0, 0, 0>>

\* The source images tried: every pixel differs from every other, none is
\* the transparent pixel, and an RGBA source is not opaque.
SourcePixel(mode, a, b) ==
    CASE mode = "L" -> <<1 + a + 10 * b>>
      [] mode = "RGB" -> <<1 + a, 1 + b, 9>>
      [] mode = "RGBA" -> <<1 + a, 1 + b, 9, 128>>

SourceImage(w, h, mode) ==
    PixelImage(w, h, mode, [c \in Coords(w, h) |-> SourcePixel(mode, c[1], c[2])])

\* im.convert("RGBA") of an L, RGB or RGBA pixel.
PixelToRGBA(mode, p) ==
    CASE mode = "L" -> <<p[1], p[1], p[1], 255>>
      [] mode = "RGB" -> <<p[1], p[2], p[3], 255>>
      [] mode = "RGBA" -> p

ConvertRGBA(im) ==
    PixelImage(im.width, im.height, "RGBA",
               [c \in Coords(im.width, im.height) |-> PixelToRGBA(im.mode, im.at[c])])

\* Image.paste(im, (dx0, dy0)) without a mask, for images of one mode: the
\* region of im that falls inside the target is copied over the target's
\* pixels, the rest of im is dropped.
ImagingPaste(out, im, dx0, dy0) ==
    LET sx0 == IF dx0 < 0 THEN -dx0 ELSE 0
        sy0 == IF dy0 < 0 THEN -dy0 ELSE 0
        ox0 == IF dx0 < 0 THEN 0 ELSE dx0
        oy0 == IF dy0 < 0 THEN 0 ELSE dy0
        xs == IF dx0 < 0 THEN im.width + dx0 ELSE im.width
        ys == IF dy0 < 0 THEN im.height + dy0 ELSE im.height
        xsize == IF ox0 + xs > out.width THEN out.width - ox0 ELSE xs
        ysize == IF oy0 + ys > out.height THEN out.height - oy0 ELSE ys
    IN IF xsize <= 0 \/ ysize <= 0 THEN out
       ELSE [out EXCEPT !.at =
                [c \in Coords(out.width, out.height) |->
                    IF /\ c[1] >= ox0 /\ c[1] < ox0 + xsize
                       /\ c[2] >= oy0 /\ c[2] < oy0 + ysize
                    THEN im.at[<<c[1] - ox0 + sx0, c[2] - oy0 + sy0>>]
                    ELSE out.at[c]]]

\* CropPixels pasting the source at (x, y).
CropPixelsAtXY(image, x, y, width, height) ==
    ImagingPaste(NewImage(width, height, "RGBA", Transparent), ConvertRGBA(image), x, y)

\* The pixels of ImageCropInvocation's image_crop.
CropPixels(image, x, y, width, height) ==
    LET image_crop == NewImage(width, height, "RGBA", Transparent)
    IN ImagingPaste(image_crop, ConvertRGBA(image), -x, -y)

PixelModes == {"L", "RGB", "RGBA"}

Sides == 1..MaxSide

\* The crop offsets tried reach past every side of the source and of the canvas.
CropOffsets == (-(MaxSide + 1))..(MaxSide + 1)

Idle ==
    /\ calc = NoCalc
    /\ UNCHANGED <<store, invocations, last>>

CropCalc ==
    /\ Idle
    /\ \E sw \in Sides, sh \in Sides, mode \in PixelModes,
          x \in CropOffsets, y \in CropOffsets, width \in Sides, height \in Sides :
           /\ calc' = [fn |-> "crop", image |-> SourceImage(sw, sh, mode),
                       x |-> x, y |-> y, width |-> width, height |-> height,
                       out |-> CropPixels(SourceImage(sw, sh, mode), x, y, width, height)]

\* PastePixels pasting the overlay at (x, y) itself.
PastePixelsRawOffset(base_image, image, x, y) ==
    LET min_x == Min(0, x)
        min_y == Min(0, y)
        max_x == Max(base_image.width, image.width + x)
        max_y == Max(base_image.height, image.height + y)
        new_image == NewImage(max_x - min_x, max_y - min_y, "RGBA", Transparent)
        with_base == ImagingPaste(new_image, ConvertRGBA(base_image), Abs(min_x), Abs(min_y))
    IN [base_at |-> <<Abs(min_x), Abs(min_y)>>,
        image_at |-> <<x, y>>,
        new_image |-> ImagingPaste(with_base, ConvertRGBA(image), x, y)]

\* ImagePasteInvocation's new_image without a mask, and where the two pastes
\* put base_image and image on it.
PastePixels(base_image, image, x, y) ==
    LET min_x == Min(0, x)
        min_y == Min(0, y)
        max_x == Max(base_image.width, image.width + x)
        max_y == Max(base_image.height, image.height + y)
        new_image == NewImage(max_x - min_x, max_y - min_y, "RGBA", Transparent)
        with_base == ImagingPaste(new_image, ConvertRGBA(base_image), Abs(min_x), Abs(min_y))
    IN [base_at |-> <<Abs(min_x), Abs(min_y)>>,
        image_at |-> <<Max(0, x), Max(0, y)>>,
        new_image |-> ImagingPaste(with_base, ConvertRGBA(image), Max(0, x), Max(0, y))]

\* The paste offsets tried put the overlay inside, across and beyond every
\* side of the base.
PastePixelOffsets == (-(MaxSide + 1))..(MaxSide + 1)

\* The base and the overlay differ in mode, so that no base pixel equals an
\* overlay pixel.
PasteCalc ==
    /\ Idle
    /\ \E bw \in Sides, bh \in Sides, iw \in Sides, ih \in Sides,
          bmode \in PixelModes, imode \in PixelModes,
          x \in PastePixelOffsets, y \in PastePixelOffsets :
           /\ bmode # imode
           /\ calc' = [fn |-> "paste", base_image |-> SourceImage(bw, bh, bmode),
                       image |-> SourceImage(iw, ih, imode), x |-> x, y |-> y,
                       out |-> PastePixels(SourceImage(bw, bh, bmode),
                                           SourceImage(iw, ih, imode), x, y)]

\* int(n / d) for d > 0: the quotient without its fraction, towards zero.
Trunc(n, d) == IF n >= 0 THEN n \div d ELSE -((-n) \div d)

\* numpy.uint8 of a float outside 0..255 is not defined by the language the
\* cast is compiled from: a build either keeps the low eight bits of the
\* truncated integer or stops at the nearest end of the range.
CastOutcomes == {"wrap", "saturate"}

Uint8(t, cast) ==
    IF t >= 0 /\ t <= ByteMax THEN t
    ELSE IF cast = "wrap" THEN t % (ByteMax + 1)
    ELSE IF t < 0 THEN 0 ELSE ByteMax

\* The values of min and max tried in the channel computations.
ChannelBounds == {0, 10, 128, 200, 255}

ByteValues == 0..ByteMax

\* One channel of ImageLerpInvocation's lerp_image:
\* uint8(v / 255 * (max - min) + max). The float32 rounding of the quotient is
\* left out: the value is the exact one.
LerpChannel(v, min, max, cast) ==
    Uint8(Trunc(v * (max - min) + ByteMax * max, ByteMax), cast)

LerpCalc ==
    /\ Idle
    /\ \E v \in ByteValues, min \in ChannelBounds, max \in ChannelBounds, cast \in CastOutcomes :
           /\ calc' = [fn |-> "lerp", v |-> v, min |-> min, max |-> max, cast |-> cast,
                       out |-> LerpChannel(v, min, max, cast)]

\* One channel of ImageInverseLerpInvocation's ilerp_image:
\* uint8(minimum(maximum(v - min, 0) / float(max - min), 1) * 255). The
\* numerator is clamped at 0 before the division, the quotient at 1 after it.
\* With max = min the quotient is inf (clamped to 1) or NaN (cast to some
\* byte); with max < min it is 0 or negative, and the product is cast as it is.
\* The float32 rounding of the quotient is left out.
InverseLerpChannel(v, min, max, cast, nan) ==
    LET n == Max(v - min, 0)
        d == max - min
    IN IF d = 0 THEN (IF n > 0 THEN ByteMax ELSE nan)
       ELSE IF d > 0 THEN Uint8(Trunc(Min(n, d) * ByteMax, d), cast)
       ELSE Uint8(-Trunc(n * ByteMax, -d), cast)

InverseLerpCalc ==
    /\ Idle
    /\ \E v \in ByteValues, min \in ChannelBounds, max \in ChannelBounds, cast \in CastOutcomes :
         \E nan \in IF min = max /\ v <= min THEN NaNBytes ELSE {0} :
           /\ calc' = [fn |-> "ilerp", v |-> v, min |-> min, max |-> max, cast |-> cast,
                       out |-> InverseLerpChannel(v, min, max, cast, nan)]

PixelInit ==
    /\ store = <<>>
    /\ invocations = 0
    /\ last = NoInvocation
    /\ calc = NoCalc

PixelNext ==
    \/ CropCalc
    \/ PasteCalc
    \/ LerpCalc
    \/ InverseLerpCalc

PixelSpec == PixelInit /\ [][PixelNext]_vars

\* ---------------------------------------------------------------- properties

PassThroughNodes == {"load_image", "show_image"}

PersistingNodes ==
    {"img_crop", "img_paste", "tomask", "img_mul", "img_chan", "img_conv", "img_blur",
     "img_resize", "img_scale", "img_lerp", "img_ilerp", "img_nsfw", "img_watermark"}

\* An invocation has ended.
Invoked == last.node # "none"

Succeeded == last.status = "ok"
Failed == last.status = "failed"

\* C1: a persisting node (any node but Load and Show) that succeeds has called
\* create exactly once, with origin INTERNAL, its own node id, the context's
\* session id and its own is_intermediate flag; the artifact is stored with
\* that lineage, and the output carries the name, width and height of the
\* descriptor that create returned.
C1_SuccessPersistsOnceWithLineage ==
    (Succeeded /\ last.node \notin PassThroughNodes) =>
        /\ last.node \in PersistingNodes
        /\ Len(last.creates) = 1
        /\ LET call == last.creates[1].call
               dto == last.creates[1].dto
           IN /\ call.image_origin = "INTERNAL"
              /\ call.node_id = last.id
              /\ call.session_id = last.session
              /\ call.is_intermediate = last.is_intermediate
              /\ dto.image_name \in DOMAIN store
              /\ dto.image_name \notin DOMAIN last.before
              /\ store[dto.image_name].node_id = last.id
              /\ store[dto.image_name].session_id = last.session
              /\ store[dto.image_name].is_intermediate = last.is_intermediate
              /\ store[dto.image_name].origin = "INTERNAL"
              /\ last.out = Some([name |-> dto.image_name, width |-> dto.width,
                                  height |-> dto.height])

\* A Crop has succeeded with an output whose size is not its input's: the
\* output's dimensions are the descriptor's.
C1_Witness ==
    /\ Succeeded
    /\ last.node = "img_crop"
    /\ Len(last.creates) = 1
    /\ Get(last.out).width # last.fetched[1][2].width
    /\ last.id = "n2"

\* C2: an invocation that ends in failure has called create not at all and
\* leaves the store with the artifacts it had; and no invocation, failed or
\* not, calls create more than once or stores more artifacts than it created.
C2_FailurePersistsNothing ==
    Invoked =>
        /\ Failed => (last.creates = <<>> /\ Len(store) = Len(last.before)
                          /\ last.out = None)
        /\ Len(last.creates) <= 1
        /\ Len(store) = Len(last.before) + Len(last.creates)

\* A node has failed during its pixel computation, after fetching its inputs.
C2_Witness ==
    /\ Failed
    /\ last.node = "img_paste"
    /\ last.exc = "ValueError"
    /\ Len(last.fetched) = 3

\* C3: Load and Show never call create and leave the store as it was; when
\* they succeed the output names the input reference and carries the width
\* and height of the raster stored under that name.
C3_PassThroughCreatesNothing ==
    (last.node \in PassThroughNodes) =>
        /\ last.creates = <<>>
        /\ store = last.before
        /\ Succeeded =>
               LET out == Get(last.out)
                   ref == last.fields.image
               IN /\ ~IsNone(ref)
                  /\ out.name = Get(ref)
                  /\ out.name \in DOMAIN last.before
                  /\ out.width = last.before[out.name].raster.width
                  /\ out.height = last.before[out.name].raster.height

\* A Show has succeeded on a stored raster.
C3_Witness ==
    /\ Succeeded
    /\ last.node = "show_image"
    /\ Get(last.out).name = 2

C5_MaskOnlyFromMaskFromAlpha ==
    \A i \in DOMAIN last.creates :
        LET call == last.creates[i].call IN
        /\ call.image_category \in {"GENERAL", "MASK"}
        /\ (call.image_category = "MASK") <=> (last.node = "tomask")
        /\ store[last.creates[i].dto.image_name].category = call.image_category

\* ChannelExtract has persisted a single band, with category GENERAL.
C5_Witness ==
    /\ Succeeded
    /\ last.node = "img_chan"
    /\ Len(last.creates) = 1
    /\ last.creates[1].call.image.mode = "L"
    /\ store[Len(store)].category = "GENERAL"

\* The reference names an artifact that was in the store when the invocation began.
WasStored(ref) == ~IsNone(ref) /\ Get(ref) \in DOMAIN last.before

\* The raster under a reference when the invocation began.
RasterBefore(ref) == last.before[Get(ref)].raster

\* C6: InverseLerp with min equal to max (both in 0..255) on a stored image
\* fails with a division by zero and calls create not at all.
C6_InverseLerpEqualMinMaxFails ==
    (/\ last.node = "img_ilerp"
     /\ last.fields.min = last.fields.max
     /\ last.fields.min \in 0..255
     /\ WasStored(last.fields.image)) =>
        /\ Failed
        /\ last.exc = "ZeroDivisionError"
        /\ last.creates = <<>>
        /\ store = last.before

\* C7: Multiply on two stored images whose widths or heights differ fails
\* with a mismatch error and calls create not at all; it succeeds only on
\* operands of the same width and height.
C7_MultiplyRejectsDifferentSizes ==
    (/\ last.node = "img_mul"
     /\ WasStored(last.fields.image1)
     /\ WasStored(last.fields.image2)) =>
        LET image1 == RasterBefore(last.fields.image1)
            image2 == RasterBefore(last.fields.image2)
            same == image1.width = image2.width /\ image1.height = image2.height
        IN /\ ~same => (Failed /\ last.exc = "ValueError" /\ last.creates = <<>>)
           /\ Succeeded => same

\* The invocation failed on its width or height: in the validation of the
\* fields, or where the size is used.
InvalidDimensions ==
    /\ Failed
    /\ last.exc \in {"ValidationError", "TypeError"}
    /\ last.errfields \cap {"width", "height"} # {}

\* A Resize target: an integer, at least 64, a multiple of 8.
ValidResizeTarget(v) == ~IsNone(v) /\ Get(v) >= 64 /\ Get(v) % 8 = 0

IsFloorOfScaled(n, size, f) == n * f[2] <= size * f[1] /\ size * f[1] < (n + 1) * f[2]

\* C9: every raster handed to create, and every stored raster, has width and
\* height at least 1; a Scale that persists had a positive factor and persists
\* the floor of width * factor by the floor of height * factor, which for the
\* factor 1.0 are the source's width and height.
C9_PersistedDimensionsPositive ==
    /\ \A i \in DOMAIN last.creates :
           last.creates[i].call.image.width >= 1 /\ last.creates[i].call.image.height >= 1
    /\ \A n \in DOMAIN store : store[n].raster.width >= 1 /\ store[n].raster.height >= 1
    /\ (last.node = "img_scale" /\ last.creates # <<>>) =>
           LET f == Get(last.fields.scale_factor)
               source == RasterBefore(last.fields.image)
               r == last.creates[1].call.image
           IN /\ f[1] > 0 /\ f[2] > 0
              /\ IsFloorOfScaled(r.width, source.width, f)
              /\ IsFloorOfScaled(r.height, source.height, f)
              /\ f[1] = f[2] => (r.width = source.width /\ r.height = source.height)

\* A Scale by 1.5 has persisted a raster whose width is the floor of 1.5.
C9_Witness ==
    /\ Succeeded
    /\ last.node = "img_scale"
    /\ last.fields.scale_factor = Some(<<3, 2>>)
    /\ RasterBefore(last.fields.image).width = 1
    /\ store[Len(store)].raster.width = 1
    /\ store[Len(store)].raster.height = 3

\* The band a mask raster was taken from.
MaskBand(r) == IF r.px.op = "invert" THEN r.px.of[1].px.tag ELSE r.px.tag

\* C10: MaskFromAlpha on a stored image whose mode has no alpha band fails
\* with a mode error and calls create not at all; a mask it persists is taken
\* from the alpha band.
C10_MaskFromAlphaRejectsNoAlpha ==
    (last.node = "tomask" /\ WasStored(last.fields.image)) =>
        /\ ~InBands("A", RasterBefore(last.fields.image).mode) =>
               (Failed /\ last.exc = "ValueError" /\ last.creates = <<>>)
        /\ \A i \in DOMAIN last.creates : MaskBand(last.creates[i].call.image) = "A"

\* C11: Crop's output is width x height in RGBA; its pixel (i, j) is the
\* source's pixel (x + i, y + j), as RGBA, when that lies inside the source,
\* and the transparent pixel otherwise. So a window that misses the source is
\* all transparent, and the window (0, 0, W, H) of a W x H source has the
\* source's pixels.
C11_CropPixels ==
    (calc.fn = "crop") =>
        LET image == calc.image
            out == calc.out
            inside(a, b) == a >= 0 /\ a < image.width /\ b >= 0 /\ b < image.height
        IN /\ out.width = calc.width
           /\ out.height = calc.height
           /\ out.mode = "RGBA"
           /\ DOMAIN out.at = Coords(calc.width, calc.height)
           /\ \A c \in Coords(calc.width, calc.height) :
                  out.at[c] =
                      IF inside(calc.x + c[1], calc.y + c[2])
                      THEN PixelToRGBA(image.mode, image.at[<<calc.x + c[1], calc.y + c[2]>>])
                      ELSE <<0, 0, 0, 0>>
           /\ (\/ calc.x >= image.width \/ calc.x + calc.width <= 0
               \/ calc.y >= image.height \/ calc.y + calc.height <= 0) =>
                  \A c \in Coords(calc.width, calc.height) : out.at[c] = <<0, 0, 0, 0>>
           /\ (/\ calc.x = 0 /\ calc.y = 0
               /\ calc.width = image.width /\ calc.height = image.height) =>
                  \A c \in Coords(calc.width, calc.height) :
                      out.at[c] = PixelToRGBA(image.mode, image.at[c])

\* A crop window that starts left of and above the source and ends inside it:
\* the output has transparent pixels and source pixels.
C11_Witness ==
    /\ calc.fn = "crop"
    /\ calc.x = -1 /\ calc.y = -1
    /\ calc.width = 2 /\ calc.height = 2
    /\ calc.image.mode = "RGBA"
    /\ calc.out.at[<<0, 0>>] = <<0, 0, 0, 0>>
    /\ calc.out.at[<<1, 1>>] = calc.image.at[<<0, 0>>]

\* Whether coordinate c lies in the w x h rectangle whose corner is at.
InRect(c, at, w, h) ==
    /\ c[1] >= at[1] /\ c[1] < at[1] + w
    /\ c[2] >= at[2] /\ c[2] < at[2] + h

\* C12: Paste's canvas is the bounding box of the base rectangle and of the
\* overlay rectangle displaced by (x, y) from the base's corner: both
\* rectangles lie inside the canvas, each side of the canvas is a side of one
\* of them, the canvas shows the overlay's pixels on the overlay rectangle, the
\* base's pixels on the rest of the base rectangle and nothing elsewhere, and
\* an overlay within the base leaves the canvas at the base's size.
C12_PasteCanvas ==
    (calc.fn = "paste") =>
        LET base == calc.base_image
            image == calc.image
            b == calc.out.base_at
            o == calc.out.image_at
            canvas == calc.out.new_image
        IN /\ canvas.mode = "RGBA"
           /\ DOMAIN canvas.at = Coords(canvas.width, canvas.height)
           /\ o[1] - b[1] = calc.x
           /\ o[2] - b[2] = calc.y
           /\ b[1] >= 0 /\ b[2] >= 0 /\ o[1] >= 0 /\ o[2] >= 0
           /\ b[1] + base.width <= canvas.width
           /\ b[2] + base.height <= canvas.height
           /\ o[1] + image.width <= canvas.width
           /\ o[2] + image.height <= canvas.height
           /\ b[1] = 0 \/ o[1] = 0
           /\ b[2] = 0 \/ o[2] = 0
           /\ canvas.width = b[1] + base.width \/ canvas.width = o[1] + image.width
           /\ canvas.height = b[2] + base.height \/ canvas.height = o[2] + image.height
           /\ \A c \in Coords(canvas.width, canvas.height) :
                  canvas.at[c] =
                      IF InRect(c, <<b[1] + calc.x, b[2] + calc.y>>, image.width, image.height)
                      THEN PixelToRGBA(image.mode,
                                       image.at[<<c[1] - b[1] - calc.x, c[2] - b[2] - calc.y>>])
                      ELSE IF InRect(c, b, base.width, base.height)
                      THEN PixelToRGBA(base.mode, base.at[<<c[1] - b[1], c[2] - b[2]>>])
                      ELSE <<0, 0, 0, 0>>
           /\ (/\ calc.x >= 0 /\ calc.x + image.width <= base.width
               /\ calc.y >= 0 /\ calc.y + image.height <= base.height) =>
                  /\ canvas.width = base.width
                  /\ canvas.height = base.height

\* An overlay pasted left of and above the base: the canvas grows to the left
\* and upwards, the overlay is at the canvas' corner and the base is displaced.
C12_Witness ==
    /\ calc.fn = "paste"
    /\ calc.x = -1 /\ calc.y = -2
    /\ calc.base_image.width = 2 /\ calc.base_image.height = 2
    /\ calc.image.width = 2 /\ calc.image.height = 1
    /\ calc.out.new_image.width = 3 /\ calc.out.new_image.height = 4
    /\ calc.out.base_at = <<1, 2>>
    /\ calc.out.new_image.at[<<0, 0>>] = PixelToRGBA(calc.image.mode, calc.image.at[<<0, 0>>])
    /\ calc.out.new_image.at[<<0, 1>>] = <<0, 0, 0, 0>>

\* min(max(t, 0), 255)
Saturated(t) == IF t < 0 THEN 0 ELSE IF t > 255 THEN 255 ELSE t

\* C13: for every channel value v and every min, max in 0..255, Lerp's
\* output channel is v / 255 * (max - min) + max saturated to 0..255: above
\* 255 it is 255, below 0 it is 0, never the value modulo 256.
C13_LerpSaturates ==
    (calc.fn = "lerp") =>
        calc.out = Saturated(Trunc(calc.v * (calc.max - calc.min) + 255 * calc.max, 255))

\* clamp((v - min) / (max - min), 0, 1) * 255 for min # max, without its fraction.
ClampedQuotient(v, min, max) ==
    LET num == IF max > min THEN v - min ELSE min - v
        den == IF max > min THEN max - min ELSE min - max
    IN IF num <= 0 THEN 0
       ELSE IF num >= den THEN 255
       ELSE (num * 255) \div den

\* C14: for every channel value v and every min # max in 0..255, max < min
\* included, InverseLerp's output channel is
\* clamp((v - min) / (max - min), 0, 1) * 255, the quotient clamped on both
\* sides, so the output lies in 0..255.
C14_InverseLerpClampsQuotient ==
    (calc.fn = "ilerp" /\ calc.min # calc.max) =>
        /\ calc.out = ClampedQuotient(calc.v, calc.min, calc.max)
        /\ calc.out \in 0..255

\* C15: a successful NSFWBlur has persisted exactly one new artifact whatever
\* the classifier answered; when it answered false the persisted raster is
\* the fetched input, and when it answered true the persisted raster is the
\* caution image pasted at (0, 0) onto the radius-32 Gaussian blur of the
\* input, which is not the input.
C15_NSFWBlurPersists ==
    (last.node = "img_nsfw" /\ Succeeded) =>
        /\ Len(last.creates) = 1
        /\ Len(store) = Len(last.before) + 1
        /\ LET input == RasterBefore(last.fields.image)
               persisted == store[Len(store)].raster
               blurred == Raster(input.width, input.height, input.mode,
                                 Px("filter", "GaussianBlur", <<32>>, <<input>>))
           IN /\ last.creates[1].call.image = persisted
              /\ last.fields.answer \in {"clean", "flagged"}
              /\ (last.fields.answer = "clean") => persisted = input
              /\ (last.fields.answer = "flagged") =>
                     /\ persisted.px = Px("paste", "caution", <<0, 0>>, <<blurred>>)
                     /\ persisted.width = input.width
                     /\ persisted.height = input.height
                     /\ persisted # input
                     /\ persisted # blurred

\* NSFWBlur has persisted the blurred, caution-marked raster of a flagged
\* input and returned the new artifact's name.
C15_Witness ==
    /\ last.node = "img_nsfw"
    /\ Succeeded
    /\ last.fields.answer = "flagged"
    /\ Len(last.creates) = 1
    /\ last.creates[1].call.image.px.op = "paste"
    /\ last.creates[1].call.image.px.of[1].px.op = "filter"
    /\ Get(last.out).name = Len(store)

====
